---------------------------- MODULE Spec2Model ----------------------------
(***************************************************************************)
(* CyberTapestry: the deterministic generation engine (js/utils.js,        *)
(* js/patterns.js) and the render pipeline that drives it (js/app.js).     *)
(*                                                                         *)
(* JavaScript numbers that hold integers are modelled as triples           *)
(* <<k, hi, lo>> standing for k * 2^32 + hi * 2^16 + lo, with hi and lo in *)
(* 0..65535.  An unsigned 32-bit value has k = 0; a signed 32-bit value    *)
(* has k = -1 exactly when its sign bit (hi >= 32768) is set; a sum of two *)
(* such numbers, which JavaScript computes exactly as a double, may have   *)
(* any small k.  Text is a sequence of one-character strings.              *)
(***************************************************************************)
EXTENDS Integers, Sequences, FiniteSets, TLC

-----------------------------------------------------------------------------
(* 32-bit integer operators of JavaScript *)

RECURSIVE Xor16(_, _)
\* bitwise exclusive or of two 16-bit halves
Xor16(a, b) ==
    IF a = 0 THEN b
    ELSE IF b = 0 THEN a
    ELSE ((a + b) % 2) + 2 * Xor16(a \div 2, b \div 2)

RECURSIVE And16(_, _)
\* bitwise and of two 16-bit halves
And16(a, b) ==
    IF a = 0 \/ b = 0 THEN 0
    ELSE ((a % 2) * (b % 2)) + 2 * And16(a \div 2, b \div 2)

\* the exact 32-bit product of two 16-bit halves, as <<high half, low half>>
Mul16(a, b) ==
    LET p0 == a * (b % 256)
        p1 == a * (b \div 256)
        low == p0 + (p1 % 256) * 256
    IN  <<((p1 \div 256) + (low \div 65536)) % 65536, low % 65536>>

\* ToInt32: the number reduced mod 2^32 and read as a signed value
ToInt32(n) == <<IF n[2] >= 32768 THEN -1 ELSE 0, n[2], n[3]>>

\* ToUint32 (n >>> 0): the number reduced mod 2^32 and read as unsigned
ToUint32(n) == <<0, n[2], n[3]>>

\* a model integer (within the checker's own range) as a JavaScript number
FromInt(n) == <<IF n < 0 THEN -1 ELSE 0, (n \div 65536) % 65536, n % 65536>>

\* a + b on numbers: exact, no wrap-around
NumAdd(a, b) ==
    LET lo == a[3] + b[3]
        hi == a[2] + b[2] + (lo \div 65536)
    IN  <<a[1] + b[1] + (hi \div 65536), hi % 65536, lo % 65536>>

\* a ^ b: both operands to int32, the result an int32
NumXor(a, b) == ToInt32(<<0, Xor16(a[2], b[2]), Xor16(a[3], b[3])>>)

\* a & b: both operands to int32, the result an int32
NumAnd(a, b) == ToInt32(<<0, And16(a[2], b[2]), And16(a[3], b[3])>>)

\* Math.imul(a, b): the low 32 bits of the product, read as signed
imul(a, b) ==
    LET ll == Mul16(a[3], b[3])
        cross == Mul16(a[2], b[3])[2] + Mul16(a[3], b[2])[2]
    IN  ToInt32(<<0, (ll[1] + cross) % 65536, ll[2]>>)

\* a >>> s for 0 <= s < 32: logical shift, zero filling, result unsigned
ushr(a, s) ==
    IF s = 0 THEN ToUint32(a)
    ELSE IF s < 16
      THEN <<0, a[2] \div (2 ^ s),
                (a[2] % (2 ^ s)) * (2 ^ (16 - s)) + (a[3] \div (2 ^ s))>>
      ELSE <<0, 0, a[2] \div (2 ^ (s - 16))>>

\* a % m for a small positive integer m: the remainder takes the sign of a
NumRem(a, m) ==
    LET p16 == 65536 % m
        p32 == (p16 * p16) % m
        fm == ((a[1] % m) * p32 + (a[2] % m) * p16 + (a[3] % m)) % m
    IN  IF a[1] >= 0 THEN fm ELSE IF fm = 0 THEN 0 ELSE fm - m

\* the number is an unsigned 32-bit value, 0 <= n < 2^32
IsUint32(n) == n[1] = 0 /\ n[2] \in 0..65535 /\ n[3] \in 0..65535

-----------------------------------------------------------------------------
(* Text: sequences of one-character strings *)

HexDigits ==
    <<"0", "1", "2", "3", "4", "5", "6", "7",
      "8", "9", "a", "b", "c", "d", "e", "f">>

UpperHex == <<"A", "B", "C", "D", "E", "F">>

\* the character class [0-9a-fA-F]
IsHexChar(c) ==
    \/ \E d \in 1..16 : HexDigits[d] = c
    \/ \E d \in 1..6 : UpperHex[d] = c

\* String.prototype.toLowerCase on one character of the class above
\* (the only characters left when normalizeHex lower-cases)
ToLowerChar(c) ==
    IF \E d \in 1..6 : UpperHex[d] = c
      THEN HexDigits[10 + (CHOOSE d \in 1..6 : UpperHex[d] = c)]
      ELSE c

\* the value of one hexadecimal digit, either case
HexVal(c) == (CHOOSE d \in 1..16 : HexDigits[d] = ToLowerChar(c)) - 1

\* StripPrefix with the pattern /^0x?/i: the x is optional
StripPrefixOptionalX(t) ==
    IF Len(t) >= 2 /\ t[1] = "0" /\ t[2] \in {"x", "X"}
      THEN SubSeq(t, 3, Len(t))
      ELSE IF Len(t) >= 1 /\ t[1] = "0" THEN SubSeq(t, 2, Len(t)) ELSE t

\* StripPrefix with the pattern /^0x/: the i flag is missing
StripPrefixCaseSensitive(t) ==
    IF Len(t) >= 2 /\ t[1] = "0" /\ t[2] = "x"
      THEN SubSeq(t, 3, Len(t))
      ELSE t

\* .replace(/^0x/i, ""): one "0x" or "0X" removed, at position 0 only
StripPrefix(t) ==
    IF Len(t) >= 2 /\ t[1] = "0" /\ t[2] \in {"x", "X"}
      THEN SubSeq(t, 3, Len(t))
      ELSE t

\* .replace(/[^0-9a-fA-F]/g, ""): every character outside the class removed
RemoveNonHex(t) == SelectSeq(t, IsHexChar)

\* ToLowerCase left out
ToLowerCaseNone(t) == t

\* .toLowerCase()
ToLowerCase(t) == [p \in 1..Len(t) |-> ToLowerChar(t[p])]

RECURSIVE ParseDigits(_, _, _)
\* the digits of t from position p on, read most significant first, onto acc
ParseDigits(t, p, acc) ==
    IF p > Len(t) \/ ~IsHexChar(t[p]) THEN acc
    ELSE ParseDigits(t, p + 1, acc * 16 + HexVal(t[p]))

\* parseInt(t, 16) on at most two characters: the value of the leading
\* hexadecimal digits; NaN, written -1 here, when there is none
parseInt16(t) ==
    IF Len(t) = 0 \/ ~IsHexChar(t[1]) THEN -1 ELSE ParseDigits(t, 1, 0)

\* a byte read by parseInt as an operand of ^: NaN becomes 0
ByteOperand(b) == IF b < 0 THEN FromInt(0) ELSE FromInt(b)

RECURSIVE Digits16(_)
\* Number.prototype.toString(16) of a non-negative model integer
Digits16(n) ==
    IF n < 16 THEN <<HexDigits[n + 1]>>
    ELSE Append(Digits16(n \div 16), HexDigits[(n % 16) + 1])

RECURSIVE padStart(_, _, _)
\* String.prototype.padStart(len, c)
padStart(t, len, c) == IF Len(t) >= len THEN t ELSE padStart(<<c>> \o t, len, c)

\* w.toString(16) of an unsigned 32-bit number: no leading zeros
toString16(w) ==
    IF w[2] = 0 THEN Digits16(w[3])
    ELSE Digits16(w[2]) \o padStart(Digits16(w[3]), 4, "0")

-----------------------------------------------------------------------------
(* js/utils.js: constants and hash primitives *)

FNV_OFFSET == <<0, 33052, 40389>>        \* 0x811c9dc5
FNV_PRIME == <<0, 256, 403>>             \* 0x01000193
MIX_C1 == <<0, 34283, 51819>>            \* 0x85ebca6b
MIX_C2 == <<0, 49842, 44597>>            \* 0xc2b2ae35
GOLDEN == <<0, 40503, 31161>>            \* 0x9e3779b9
STIR == <<0, 40503, 31153>>              \* 0x9e3779b1

MAX_HEX_NORM == 128
COMPRESS_TO_WORDS == 8

\* fmix32(a): Murmur3 finalizer
fmix32(a) ==
    LET a1 == NumXor(a, ushr(a, 16))
        a2 == imul(a1, MIX_C1)
        a3 == NumXor(a2, ushr(a2, 13))
        a4 == imul(a3, MIX_C2)
        a5 == NumXor(a4, ushr(a4, 16))
    IN  ToUint32(a5)

\* BitOrZero with Math.floor in place of | 0
BitOrZeroFloor(q) == ToInt32(FromInt(q[1] \div q[2]))

\* a / b truncated toward zero (b > 0)
TruncDiv(a, b) == IF a >= 0 THEN a \div b ELSE -((-a) \div b)

\* q | 0 for a coordinate q = <<numerator, denominator>>: the fraction is
\* dropped toward zero, the result is an int32
BitOrZero(q) == ToInt32(FromInt(TruncDiv(q[1], q[2])))

\* hash2D(seed, x, y), x and y given as <<numerator, denominator>>
hash2D(sd, x, y) ==
    LET n1 == ToUint32(NumAdd(sd, imul(NumAdd(BitOrZero(x), GOLDEN), MIX_C1)))
        n2 == NumXor(n1, imul(NumAdd(BitOrZero(y), GOLDEN), MIX_C2))
    IN  fmix32(n2)

\* SeedLoopStep in FNV-1 order: multiply, then exclusive or
SeedLoopStepFnv1(hh, t, p) ==
    LET b == parseInt16(SubSeq(t, p + 1, p + 2))
    IN  NumXor(imul(hh, FNV_PRIME), ByteOperand(b))

\* one pass of the loop body of hexToSeed32 on the byte at 0-based offset p
SeedLoopStep(hh, t, p) ==
    LET b == parseInt16(SubSeq(t, p + 1, p + 2))
    IN  imul(NumXor(hh, ByteOperand(b)), FNV_PRIME)

\* SeedPad left out
SeedPadNone(t) == t

\* SeedPad with the "0" put before the last digit, as the compressor reads
\* a trailing digit
SeedPadLastByte(t) ==
    IF Len(t) % 2 = 1
      THEN SubSeq(t, 1, Len(t) - 1) \o <<"0">> \o <<t[Len(t)]>>
      ELSE t

\* the local copy of hex that hexToSeed32 walks
SeedPad(t) == IF Len(t) % 2 = 1 THEN <<"0">> \o t ELSE t

\* return h >>> 0
SeedResult(hh) == ToUint32(hh)

-----------------------------------------------------------------------------
(* js/utils.js: the 4-lane compressor and normalizeHex *)

\* the four salted lanes compressHexToWords starts from
lanes == [k \in 1..4 |-> ToUint32(NumXor(FNV_OFFSET, FromInt(k)))]

\* the byte the scan loop reads at 0-based offset p: two digits, or "0"
\* and the last digit when only one is left
ScanByte(t, p) ==
    parseInt16(IF p + 1 < Len(t) THEN SubSeq(t, p + 1, p + 2)
                                 ELSE <<"0">> \o <<t[p + 1]>>)

\* NextLane that skips a lane
NextLaneSkip(ln) == And16(ln + 2, 3)

\* (lane + 1) & 3
NextLane(ln) == And16(ln + 1, 3)

\* the body of the scan loop: FNV-1a step on lane ln, then the stir of the
\* next lane; hh is the tuple of the 4 lanes, lane number ln is hh[ln + 1]
ScanStep(hh, ln, b) ==
    LET x1 == NumXor(hh[ln + 1], ByteOperand(b))
        hl == ToUint32(imul(x1, FNV_PRIME))
        h1 == [hh EXCEPT ![ln + 1] = hl]
        nxt == NextLane(ln)
        st == NumXor(h1[nxt + 1], NumXor(ushr(hl, 17), imul(hl, STIR)))
    IN  [h1 EXCEPT ![nxt + 1] = ToUint32(st)]

\* for (let i = 0; i < 4; i++) h[i] = fmix32(h[i])
FinalizeLanes(hh) == [k \in 1..4 |-> fmix32(hh[k])]

\* ExpandWord without the index term: the word is fmix32 of the lane alone
ExpandWordLaneOnly(hh, n) == ToUint32(fmix32(hh[And16(n, 3) + 1]))

\* ExpandWord with i in place of i + 1
ExpandWordNoOffset(hh, n) ==
    ToUint32(fmix32(NumAdd(hh[And16(n, 3) + 1], imul(FromInt(n), GOLDEN))))

\* output word number n (0-based) of the expansion loop
ExpandWord(hh, n) ==
    ToUint32(fmix32(NumAdd(hh[And16(n, 3) + 1], imul(FromInt(n + 1), GOLDEN))))

RECURSIVE JoinWordsUnpadded(_)
\* JoinWords without padStart
JoinWordsUnpadded(ws) ==
    IF ws = <<>> THEN <<>>
    ELSE toString16(Head(ws)) \o JoinWordsUnpadded(Tail(ws))

RECURSIVE JoinWords(_)
\* words.map((w) => w.toString(16).padStart(8, "0")).join("")
JoinWords(ws) ==
    IF ws = <<>> THEN <<>>
    ELSE padStart(toString16(Head(ws)), 8, "0") \o JoinWords(Tail(ws))

\* the local hex of normalizeHex before the length test
CleanHex(t) == ToLowerCase(RemoveNonHex(StripPrefix(t)))

-----------------------------------------------------------------------------
(* constants.js *)

PALETTE_BASE == <<"#FFFBDE", "#91C8E4", "#749BC2", "#4682A9">>
CANVAS_W == 128
CANVAS_H == 128
BLOCK_OPTIONS == <<1, 2, 4, 8, 16>>

MODE_NAMES ==
    <<"none", "vertical", "horizontal", "quad", "diag", "anti-diag", "rot4",
      "rings", "sectors", "stripes", "checker", "diamonds", "squares",
      "spiral", "spokes", "bricks", "voronoi", "value-noise", "weave",
      "crosshatch", "rot45-checker", "kaleido8", "concentric-squares",
      "bullseye-bold", "dots-grid", "waves", "square-maze", "iso-cubes",
      "hex-tiles", "triangles", "chevron", "grid-rings">>

\* the seed the page boots with when the URL carries none
DEFAULT_SEED == <<"d", "e", "a", "d", "b", "e", "e", "f", "c", "a", "f", "e", "f", "e", "e", "d", "8", "b", "a", "d", "f", "0", "0", "d">>

-----------------------------------------------------------------------------
(* js/patterns.js *)

\* a % m on model integers: the remainder takes the sign of a
TruncRem(a, m) == IF a >= 0 THEN a % m ELSE -((-a) % m)

\* const mod = (n, m) => ((n % m) + m) % m, on a number n
mod(n, m) == (NumRem(n, m) + m) % m

\* (c / blockSize) | 0, handed on as a coordinate
Cell(c, bs) == <<TruncDiv(c, bs), 1>>

\* the order of the comparator (a, b) => a[0] - b[0] || a[1] - b[1]
LexLE(a, b) == a[1] < b[1] \/ (a[1] = b[1] /\ a[2] <= b[2])

\* rot4Canonical without the sort
rot4CanonicalUnsorted(x, y, W, H) == <<x, y>>

\* rot4Canonical(x, y, W, H): the first element after the sort
rot4Canonical(x, y, W, H) ==
    LET arr == {<<x, y>>, <<W - 1 - y, x>>, <<W - 1 - x, H - 1 - y>>,
                <<y, H - 1 - x>>}
    IN  CHOOSE t \in arr : \A u \in arr : LexLE(t, u)

\* the keys of the object buildColorIndexer returns
RegistryKeys == 0..31

\* MirrorFold that reflects about c = n / 2, not about (n - 1) / 2
MirrorFoldOffByOne(c, n) == IF 2 * c < n THEN c ELSE n - c

\* c < n / 2 ? c : n - 1 - c
MirrorFold(c, n) == IF 2 * c < n THEN c ELSE n - 1 - c

\* the modes whose indexer is modelled
ModelledModes == {0, 1, 2, 3, 4, 5, 6, 9, 10}

\* buildColorIndexer(seed, blockSize, paletteLen, W, H)[m](x, y)
indexAt(m, sd, bs, plen, W, H, x, y) ==
    CASE m = 0 -> NumRem(hash2D(sd, Cell(x, bs), Cell(y, bs)), plen)
      [] m = 1 ->
           LET sx == MirrorFold(x, W)
           IN  NumRem(hash2D(sd, Cell(sx, bs), Cell(y, bs)), plen)
      [] m = 2 ->
           LET sy == MirrorFold(y, H)
           IN  NumRem(hash2D(sd, Cell(x, bs), Cell(sy, bs)), plen)
      [] m = 3 ->
           LET sx == MirrorFold(x, W)
               sy == MirrorFold(y, H)
           IN  NumRem(hash2D(sd, Cell(sx, bs), Cell(sy, bs)), plen)
      [] m = 4 ->
           LET sx == IF y > x THEN y ELSE x
               sy == IF y > x THEN x ELSE y
           IN  NumRem(hash2D(sd, Cell(sx, bs), Cell(sy, bs)), plen)
      [] m = 5 ->
           LET sx == IF y > H - 1 - x THEN H - 1 - y ELSE x
               sy == IF y > H - 1 - x THEN W - 1 - x ELSE y
           IN  NumRem(hash2D(sd, Cell(sx, bs), Cell(sy, bs)), plen)
      [] m = 6 ->
           LET s == rot4Canonical(x, y, W, H)
           IN  NumRem(hash2D(sd, Cell(s[1], bs), Cell(s[2], bs)), plen)
      [] m = 9 ->
           LET bx == FromInt(TruncDiv(x, bs))
               by == FromInt(TruncDiv(y, bs))
           IN  mod(NumXor(bx, NumAdd(by, NumAnd(sd, FromInt(3)))), plen)
      [] m = 10 ->
           LET bx == TruncDiv(x, bs)
               by == TruncDiv(y, bs)
               parity == NumAnd(FromInt(bx + by), FromInt(1))
               hv == ToUint32(hash2D(sd, <<bx, 1>>, <<by, 1>>))
               v == IF parity # FromInt(0) THEN ushr(hv, 1) ELSE ushr(hv, 3)
           IN  mod(v, plen)

\* Math.max(a, b) and Math.abs(a) on integers
Max(a, b) == IF a >= b THEN a ELSE b

Abs(a) == IF a < 0 THEN -a ELSE a

\* the integer a number in [0, 2^31) holds
LowInt(n) == n[2] * 65536 + n[3]

\* (a ^ b) & k on integers a and b, for a small mask k
XorMask(a, b, k) == LowInt(NumAnd(NumXor(FromInt(a), FromInt(b)), FromInt(k)))

\* const weaveP, weaveT
weaveP(bs) == Max(3, bs * 2)

weaveT(bs) == Max(1, weaveP(bs) \div 5)

\* const hatchP, hatchT
hatchP(bs) == Max(4, bs * 3)

hatchT(bs) == Max(1, hatchP(bs) \div 6)

\* const rcStep
rcStep(bs) == Max(2, bs * 2)

\* const cell (voronoi and value-noise)
noiseCell(bs) == Max(4, bs * 4)

\* Math.abs((c % period) - period / 2) < thickness, both sides doubled
InBand(c, period, thickness) == Abs(2 * TruncRem(c, period) - period) < 2 * thickness

\* 15 bricks
bricks(sd, bs, plen, x, y) ==
    LET bw == bs * 2
        row == y \div bs
        x2 == x + (IF LowInt(NumAnd(FromInt(row), FromInt(1))) # 0 THEN bw \div 2 ELSE 0)
        bx == x2 \div bw
    IN  mod(hash2D(sd, <<bx, 1>>, <<row, 1>>), plen)

\* 18 weave
weave(sd, bs, plen, x, y) ==
    LET isStrandX == InBand(x, weaveP(bs), weaveT(bs))
        isStrandY == InBand(y, weaveP(bs), weaveT(bs))
        tile == XorMask(TruncDiv(x, weaveP(bs)), TruncDiv(y, weaveP(bs)), 1)
    IN  IF ~(isStrandX \/ isStrandY)
          THEN mod(hash2D(sd, <<x, weaveP(bs)>>, <<y, weaveP(bs)>>), plen)
          ELSE IF tile # 0 THEN 0 ELSE 2

\* 19 crosshatch
crosshatch(sd, bs, plen, x, y) ==
    LET on == InBand(x, hatchP(bs), hatchT(bs)) \/ InBand(y, hatchP(bs), hatchT(bs))
    IN  IF ~on
          THEN mod(hash2D(sd, <<x, hatchP(bs)>>, <<y, hatchP(bs)>>), plen)
          ELSE IF LowInt(NumAnd(FromInt(TruncDiv(x, hatchP(bs))), FromInt(1))) # 0
                 THEN 1 ELSE 3

\* 20 rot45-checker
rot45Checker(bs, plen, x, y) ==
    LET a == (x + y) \div rcStep(bs)
        b == (x - y) \div rcStep(bs)
    IN  XorMask(a, b, 3) % plen

\* kaleido8 without the reflection across the diagonal
kaleido8NoDiagonal(sd, bs, plen, W, H, x, y) ==
    LET ax2 == Abs(2 * x - (W - 1))
        ay2 == Abs(2 * y - (H - 1))
        sx == (ax2 + (W - 1)) \div (2 * bs)
        sy == (ay2 + (H - 1)) \div (2 * bs)
    IN  mod(hash2D(sd, <<sx, 1>>, <<sy, 1>>), plen)

\* 21 kaleido8; ax2 and ay2 are 2 * ax and 2 * ay, and cx, cy are
\* (W - 1) / 2, (H - 1) / 2
kaleido8(sd, bs, plen, W, H, x, y) ==
    LET ux2 == Abs(2 * x - (W - 1))
        uy2 == Abs(2 * y - (H - 1))
        ax2 == IF uy2 > ux2 THEN uy2 ELSE ux2
        ay2 == IF uy2 > ux2 THEN ux2 ELSE uy2
        sx == (ax2 + (W - 1)) \div (2 * bs)
        sy == (ay2 + (H - 1)) \div (2 * bs)
    IN  mod(hash2D(sd, <<sx, 1>>, <<sy, 1>>), plen)

\* 24 dots-grid; step is even for the block sizes of BLOCK_OPTIONS, and
\* (0.28 * step)^2 is never within 0.01 of an integer for them, so the
\* comparison in doubles is the exact one: 4 * d^2 * 2500 <= 784 * step^2
dotsGrid(sd, bs, plen, x, y) ==
    LET step == Max(4, bs * 3)
        bx == x \div step
        by == y \div step
        dx2 == 2 * (x - bx * step) - step
        dy2 == 2 * (y - by * step) - step
        inside == 2500 * (dx2 * dx2 + dy2 * dy2) <= 784 * step * step
    IN  IF inside THEN LowInt(NumAnd(sd, FromInt(2)))
        ELSE mod(hash2D(sd, <<bx, 1>>, <<by, 1>>), plen)

\* square-maze with the walls shaded by the checker of the cell index and the
\* corridors hashed
squareMazeHashedInterior(sd, bs, plen, x, y) ==
    LET cell == Max(6, bs * 3)
        wall == Max(1, cell \div 6)
        onWall == TruncRem(x, cell) < wall \/ TruncRem(y, cell) < wall
        tx == TruncDiv(x, cell)
        ty == TruncDiv(y, cell)
    IN  IF onWall THEN (IF XorMask(tx, ty, 1) # 0 THEN 0 ELSE 3)
        ELSE mod(hash2D(sd, <<tx, 1>>, <<ty, 1>>), plen)

\* 26 square-maze
squareMaze(sd, bs, plen, x, y) ==
    LET cell == Max(6, bs * 3)
        wall == Max(1, cell \div 6)
        gx == TruncRem(x, cell)
        gy == TruncRem(y, cell)
        onWall == gx < wall \/ gy < wall
        tx == TruncDiv(x, cell)
        ty == TruncDiv(y, cell)
    IN  IF onWall THEN (1 + LowInt(NumAnd(sd, FromInt(1)))) % plen
        ELSE IF XorMask(tx, ty, 1) # 0 THEN 0 ELSE 3

\* 27 iso-cubes
isoCubes(sd, bs, x, y) ==
    LET s == Max(6, bs * 3)
        u == (x + y) \div s
        v == (x - y) \div s
        face == mod(FromInt(u + v), 3)
        hv == hash2D(sd, <<u, 1>>, <<v, 1>>)
    IN  IF face = 0 THEN 1
        ELSE IF face = 1 THEN 2
        ELSE LowInt(NumXor(FromInt(3), NumAnd(hv, FromInt(1))))

\* 29 triangles
triangles(bs, x, y) ==
    LET s == Max(6, bs * 3)
        gx == x \div s
        gy == y \div s
        lx == TruncRem(x, s)
        ly == TruncRem(y, s)
        diag == lx + ly < s
        base == IF XorMask(gx, gy, 1) # 0 THEN 1 ELSE 2
    IN  IF diag THEN base ELSE LowInt(NumXor(FromInt(base), FromInt(3)))

-----------------------------------------------------------------------------
(* value-noise works on doubles. Its operands are dyadic rationals (hash   *)
(* values over 2^32, multiples of 1 / cell^3), so the model computes with  *)
(* exact non-negative integers of 96 bits: 8 limbs of 12 bits, the least   *)
(* significant first.                                                      *)

BigLimbs == 1..8

BigZero == <<0, 0, 0, 0, 0, 0, 0, 0>>

\* an integer 0 <= v < 2^31
BigOfInt(v) == <<v % 4096, (v \div 4096) % 4096, v \div 16777216, 0, 0, 0, 0, 0>>

\* an unsigned 32-bit number
BigOfUint32(n) ==
    <<n[3] % 4096, (n[3] \div 4096) + 16 * (n[2] % 256), n[2] \div 256, 0, 0, 0, 0, 0>>

RECURSIVE BigAddCarry(_, _, _)
\* the carry into limb j of a + b
BigAddCarry(a, b, j) ==
    IF j = 1 THEN 0 ELSE (a[j - 1] + b[j - 1] + BigAddCarry(a, b, j - 1)) \div 4096

BigAdd(a, b) ==
    LET limb(j) == (a[j] + b[j] + BigAddCarry(a, b, j)) % 4096
    IN  <<limb(1), limb(2), limb(3), limb(4), limb(5), limb(6), limb(7), limb(8)>>

RECURSIVE BigBorrow(_, _, _)
\* the borrow out of limb j - 1 of a - b
BigBorrow(a, b, j) ==
    IF j = 1 THEN 0
    ELSE IF a[j - 1] - b[j - 1] - BigBorrow(a, b, j - 1) < 0 THEN 1 ELSE 0

\* a - b for a >= b
BigSub(a, b) ==
    LET limb(j) == (a[j] - b[j] - BigBorrow(a, b, j) + 4096) % 4096
    IN  <<limb(1), limb(2), limb(3), limb(4), limb(5), limb(6), limb(7), limb(8)>>

BigLess(a, b) ==
    \E j \in BigLimbs : a[j] < b[j] /\ \A k \in BigLimbs : k > j => a[k] = b[k]

RECURSIVE BigMulCarry(_, _, _)
\* the carry into limb j of a * d, for one limb d
BigMulCarry(a, d, j) ==
    IF j = 1 THEN 0 ELSE (a[j - 1] * d + BigMulCarry(a, d, j - 1)) \div 4096

BigMulLimb(a, d) ==
    LET limb(j) == (a[j] * d + BigMulCarry(a, d, j)) % 4096
    IN  <<limb(1), limb(2), limb(3), limb(4), limb(5), limb(6), limb(7), limb(8)>>

\* a * 4096^n
BigShift(a, n) ==
    LET limb(j) == IF j > n THEN a[j - n] ELSE 0
    IN  <<limb(1), limb(2), limb(3), limb(4), limb(5), limb(6), limb(7), limb(8)>>

\* a * v for an integer 0 <= v < 2^31
BigMulInt(a, v) ==
    LET b == BigOfInt(v)
    IN  BigAdd(BigMulLimb(a, b[1]),
               BigAdd(BigShift(BigMulLimb(a, b[2]), 1),
                      BigShift(BigMulLimb(a, b[3]), 2)))

\* smoothstep((c % cell) / cell) * cell^3
smoothstepScaled(c, cell) ==
    LET k == TruncRem(c, cell)
    IN  k * k * (3 * cell - 2 * k)

\* the exponent m of cell = 2^m
Log2(cell) == CHOOSE m \in 0..30 : 2 ^ m = cell

\* the corner term h01(u) * a * b, with a and b the signed weights of the two
\* lerps scaled by cell^3: <<its sign, its magnitude * 2^32 * cell^6>>
noiseTerm(u, a, b) ==
    <<IF (a < 0) = (b < 0) THEN 1 ELSE -1,
      BigMulInt(BigMulInt(BigOfUint32(u), Abs(a)), Abs(b))>>

\* the sum of the magnitudes of the terms of sign sg
noiseSum(terms, sg) ==
    LET pick(t) == IF t[1] = sg THEN t[2] ELSE BigZero
    IN  BigAdd(BigAdd(pick(terms[1]), pick(terms[2])),
               BigAdd(pick(terms[3]), pick(terms[4])))

\* Math.floor(v * bins) for v * bins = sign * mag / 2^e: the values the
\* computation in doubles can give. mag is first scaled so that the binary
\* point falls between limbs L and L + 1. With cell = 4 every intermediate
\* value has at most 52 significant bits and the computation is exact; with
\* larger cells it is within 2^-36 of the exact value, and next to an
\* integer both neighbouring results are possible. (exact: cell = 4 and
\* bins < 8.)
noiseFloors(sign, mag, e, exact) ==
    LET r == e % 12
        scaled == IF r = 0 THEN mag ELSE BigMulLimb(mag, 2 ^ (12 - r))
        L == (e + 11) \div 12
        q == scaled[L + 1] + 4096 * scaled[L + 2]
        whole == \A j \in 1..L : scaled[j] = 0
        nearLow == \A j \in (L - 2)..L : scaled[j] = 0
        nearHigh == \A j \in (L - 2)..L : scaled[j] = 4095
        f == IF sign >= 0 THEN q ELSE IF whole THEN -q ELSE -q - 1
    IN  IF exact THEN {f}
        ELSE IF sign >= 0
          THEN (IF nearLow THEN {q - 1, q} ELSE IF nearHigh THEN {q, q + 1} ELSE {q})
          ELSE (IF nearLow THEN {-q - 1, -q}
                ELSE IF nearHigh THEN {-q - 2, -q - 1} ELSE {-q - 1})

\* 17 value-noise: the set of results the doubles can give; blockSize is a
\* power of two, as in BLOCK_OPTIONS
valueNoise(sd, bs, plen, x, y) ==
    LET cell == noiseCell(bs)
        gx == x \div cell
        gy == y \div cell
        c3 == cell * cell * cell
        sx == smoothstepScaled(x, cell)
        sy == smoothstepScaled(y, cell)
        h00 == hash2D(sd, <<gx, 1>>, <<gy, 1>>)
        h10 == hash2D(sd, <<gx + 1, 1>>, <<gy, 1>>)
        h01v == hash2D(sd, <<gx, 1>>, <<gy + 1, 1>>)
        h11 == hash2D(sd, <<gx + 1, 1>>, <<gy + 1, 1>>)
        terms == <<noiseTerm(h00, c3 - sx, c3 - sy), noiseTerm(h10, sx, c3 - sy),
                   noiseTerm(h01v, c3 - sx, sy), noiseTerm(h11, sx, sy)>>
        pos == BigMulLimb(noiseSum(terms, 1), plen)
        neg == BigMulLimb(noiseSum(terms, -1), plen)
        sign == IF BigLess(pos, neg) THEN -1 ELSE 1
        mag == IF BigLess(pos, neg) THEN BigSub(neg, pos) ELSE BigSub(pos, neg)
        floors == noiseFloors(sign, mag, 32 + 6 * Log2(cell), cell = 4 /\ plen < 8)
    IN  {IF f < plen - 1 THEN f ELSE plen - 1 : f \in floors}

\* the modes whose indexer is called directly
IndexerModes == ModelledModes \cup {15, 17, 18, 19, 20, 21, 24, 26, 27, 29}

\* what buildColorIndexer(seed, blockSize, paletteLen, W, H)[m](x, y) can
\* return
indexResults(m, sd, bs, plen, W, H, x, y) ==
    CASE m \in ModelledModes -> {indexAt(m, sd, bs, plen, W, H, x, y)}
      [] m = 15 -> {bricks(sd, bs, plen, x, y)}
      [] m = 17 -> valueNoise(sd, bs, plen, x, y)
      [] m = 18 -> {weave(sd, bs, plen, x, y)}
      [] m = 19 -> {crosshatch(sd, bs, plen, x, y)}
      [] m = 20 -> {rot45Checker(bs, plen, x, y)}
      [] m = 21 -> {kaleido8(sd, bs, plen, W, H, x, y)}
      [] m = 24 -> {dotsGrid(sd, bs, plen, x, y)}
      [] m = 26 -> {squareMaze(sd, bs, plen, x, y)}
      [] m = 27 -> {isoCubes(sd, bs, x, y)}
      [] m = 29 -> {triangles(bs, x, y)}

-----------------------------------------------------------------------------
(* Bounds and inputs *)

\* longest text drawn over Alphabet
MaxLen == 3
\* number of digit patterns the long inputs are drawn from
MaxLongKinds == 2
\* number of sample pixels a render evaluates
NumPixels == 2
\* number of renders in one behaviour
MaxRenders == 2
\* largest output word count a direct call of the compressor asks for
MaxOutWords == 9
\* largest palette length an indexer is built with
MaxPalette == 5
\* largest side of the small canvases whose every pixel is indexed
MaxSide == 5
\* largest numerator of a probe coordinate
MaxCoord == 3

\* renders of one page, the boot render included
MaxUiRenders == 2

\* clicks on the download button
MaxDownloads == 2

Alphabet == <<"0", "x", "a", "F", "g">>

RECURSIVE TextsUpTo(_)
TextsUpTo(n) ==
    IF n = 0 THEN {<<>>}
    ELSE LET S == TextsUpTo(n - 1)
         IN  S \cup {Append(t, Alphabet[c]) : t \in S, c \in 1..Len(Alphabet)}

ScenarioTexts ==
    {<<"0", "x", "D", "E", "A", "D", "b", "e", "e", "f">>,
     <<"0", "X", "1", "f">>,
     <<"0", "x", "0", "x", "1", "2">>,
     <<"x", "0", "x", "1", "2">>,
     <<"0", "0", "x", "1", "2">>,
     <<"a", "b", "c", "1", "2", "3">>,
     <<"d", "e", "a", "d", "b", "e", "e", "f">>,
     <<"0", "a">>,
     <<"0", "x">>,
     <<"-", "A", " ", "b", "-">>,
     <<"0", "x", "g">>,
     DEFAULT_SEED}

MixedDigits == HexDigits \o UpperHex

\* n digits, both cases, in a pattern set by kind
LongText(kind, n) ==
    [p \in 1..n |-> MixedDigits[((p * (2 * kind + 1) + kind) % 22) + 1]]

\* the same digits behind a "0X" prefix and with non-hex characters inside
Decorated(t) ==
    <<"0", "X">> \o SubSeq(t, 1, 5) \o <<"-", "x", " ">> \o SubSeq(t, 6, Len(t))

LongLens ==
    {MAX_HEX_NORM - 1, MAX_HEX_NORM, MAX_HEX_NORM + 1, MAX_HEX_NORM + 2, 200}

LongTexts ==
    LET plain == {LongText(k, n) : k \in 1..MaxLongKinds, n \in LongLens}
    IN  plain \cup {Decorated(t) : t \in plain} \cup {[p \in 1..200 |-> "a"]}

\* a string value as an argument of normalizeHex: falsy exactly when empty
Str(t) == [falsy |-> t = <<>>, text |-> t]

\* falsy values that are not strings, each with the text s + "" gives
FalsyValues ==
    {[falsy |-> TRUE, text |-> <<"0">>],
     [falsy |-> TRUE, text |-> <<"f", "a", "l", "s", "e">>],
     [falsy |-> TRUE, text |-> <<"N", "a", "N">>]}

Inputs ==
    {Str(t) : t \in TextsUpTo(MaxLen) \cup ScenarioTexts \cup LongTexts}
        \cup FalsyValues

\* hex strings handed straight to compressHexToWords
CompressInputs ==
    {CleanHex(t) : t \in TextsUpTo(MaxLen) \cup ScenarioTexts}
        \cup {LongText(1, MAX_HEX_NORM + 1), LongText(MaxLongKinds, MAX_HEX_NORM + 2)}

\* seeds and coordinates hash2D is probed with
ProbeSeeds ==
    {FromInt(0), FromInt(1), <<0, 65535, 65535>>, <<0, 32768, 0>>,
     <<0, 32767, 65535>>, FNV_OFFSET}

ProbeCoords ==
    {<<n, d>> : n \in (-MaxCoord)..MaxCoord, d \in {1, 2}}
        \cup {<<127, 1>>, <<-256, 1>>, <<-511, 2>>, <<2147483647, 1>>,
              <<-2147483647, 1>>}

-----------------------------------------------------------------------------
(* State *)

VARIABLES
    pc,         \* where control is
    raw,        \* the argument of normalizeHex: a value and its text
    caller,     \* who called normalizeHex: "render", "boot" or "none"
    updateUrl,  \* the updateUrl option of the running renderFromHex
    hex,        \* normalizeHex's hex, and the value it returned
    chex,       \* compressHexToWords: its argument hex
    outWords,   \* compressHexToWords: its argument outWords
    h,          \* compressHexToWords: the 4 lanes
    i,          \* compressHexToWords: the loop index
    lane,       \* compressHexToWords: the lane of the scan loop
    out,        \* compressHexToWords: the output words
    fhex,       \* hexToSeed32: its local hex
    fh,         \* hexToSeed32: h
    fi,         \* hexToSeed32: the loop index
    url,        \* the seed parameter of the page URL; empty when absent
    normSeed,   \* els.normSeed.textContent
    lastState,  \* lastState of app.js
    seed,       \* renderFromHex: seed
    blockSize,  \* renderFromHex: blockSize
    modeIdx,    \* renderFromHex: modeIdx
    rotation,   \* renderFromHex: rotation
    palette,    \* renderFromHex: palette
    pix,        \* palette index of each sample pixel evaluated so far
    renders,    \* number of renders finished
    via,        \* how the running render was started
    prev,       \* what the render before this one produced
    probe,      \* a direct call of hash2D: its arguments and result
    call,       \* a direct call of an indexer: its arguments and result
    field,      \* els.seed.value
    pending,    \* downloadPNG: the toBlob callbacks that have not run yet
    saved       \* the downloads made, in the order of their callbacks

compressVars == <<chex, outWords, h, i, lane, out>>
seedVars == <<fhex, fh, fi>>
renderVars ==
    <<url, normSeed, lastState, seed, blockSize, modeIdx, rotation, palette, pix>>
historyVars == <<renders, via, prev>>
uiVars == <<field, pending, saved>>
vars ==
    <<pc, raw, caller, updateUrl, hex, compressVars, seedVars, renderVars,
      historyVars, probe, call, uiVars>>

\* the k-th sample pixel
PixelAt(k) ==
    <<((k - 1) * 85) % CANVAS_W, (CANVAS_H - 1 + (k - 1) * 43) % CANVAS_H>>

\* what one render produced
Outcome ==
    [hex |-> hex, seed |-> seed, blockSize |-> blockSize, modeIdx |-> modeIdx,
     rotation |-> rotation, pix |-> pix]

NoOutcome ==
    [hex |-> <<>>, seed |-> FromInt(0), blockSize |-> 0, modeIdx |-> 0,
     rotation |-> 0, pix |-> <<>>]

NoProbe == [seed |-> FromInt(0), x |-> <<0, 1>>, y |-> <<0, 1>>, result |-> <<>>]

NoCall ==
    [mode |-> 0, seed |-> FromInt(0), blockSize |-> 1, paletteLen |-> 1, W |-> 1,
     H |-> 1, x |-> 0, y |-> 0, result |-> 0]

CompressIdle ==
    /\ chex = <<>>
    /\ outWords = 0
    /\ h = [k \in 1..4 |-> FromInt(0)]
    /\ i = 0
    /\ lane = 0
    /\ out = <<>>

SeedIdle ==
    /\ fhex = <<>>
    /\ fh = FromInt(0)
    /\ fi = 0

RenderIdle ==
    /\ url = <<>>
    /\ normSeed = <<>>
    /\ lastState = [seedHex |-> <<>>, modeName |-> "", blockSize |-> 0]
    /\ seed = FromInt(0)
    /\ blockSize = 0
    /\ modeIdx = 0
    /\ rotation = 0
    /\ palette = PALETTE_BASE
    /\ pix = <<>>

HistoryIdle ==
    /\ renders = 0
    /\ via = "first"
    /\ prev = NoOutcome

UiIdle ==
    /\ field = <<>>
    /\ pending = <<>>
    /\ saved = <<>>

\* renderFromHex(s) is called on a freshly loaded page
Init ==
    /\ pc = "normalize"
    /\ raw \in Inputs
    /\ caller = "render"
    /\ updateUrl = TRUE
    /\ hex = <<>>
    /\ CompressIdle
    /\ SeedIdle
    /\ RenderIdle
    /\ HistoryIdle
    /\ field = (IF raw = Str(raw.text) THEN raw.text ELSE <<>>)
    /\ pending = <<>>
    /\ saved = <<>>
    /\ probe = NoProbe
    /\ call = NoCall

-----------------------------------------------------------------------------
(* normalizeHex and compressHexToWords, one action per step *)

\* StartLanes when h is lanes itself, not a copy, and lanes outlives the call
StartLanesShared == IF chex # <<>> THEN h ELSE lanes

\* let h = lanes.slice()
StartLanes == lanes

\* normalizeHex up to the call of the compressor (or to its return when the
\* compressor is not called)
NormalizeEnter ==
    /\ pc = "normalize"
    /\ LET c == CleanHex(raw.text)
       IN  IF raw.falsy \/ c = <<>>
             THEN /\ hex' = <<>>
                  /\ pc' = "normret"
                  /\ UNCHANGED compressVars
             ELSE IF Len(c) > MAX_HEX_NORM
               THEN /\ hex' = c
                    /\ pc' = "scan"
                    /\ chex' = c
                    /\ outWords' = COMPRESS_TO_WORDS
                    /\ h' = StartLanes
                    /\ i' = 0
                    /\ lane' = 0
                    /\ UNCHANGED out
               ELSE /\ hex' = c
                    /\ pc' = "normret"
                    /\ UNCHANGED compressVars
    /\ UNCHANGED <<raw, caller, updateUrl, seedVars, renderVars, historyVars, probe, call, uiVars>>

\* one pass of the scan loop of compressHexToWords
CompressScan ==
    /\ pc = "scan"
    /\ i < Len(chex)
    /\ h' = ScanStep(h, lane, ScanByte(chex, i))
    /\ i' = i + 2
    /\ lane' = NextLane(lane)
    /\ UNCHANGED <<pc, raw, caller, updateUrl, hex, chex, outWords, out,
                   seedVars, renderVars, historyVars, probe, call, uiVars>>

\* the scan loop ends; every lane is finalized
CompressFinalize ==
    /\ pc = "scan"
    /\ i >= Len(chex)
    /\ h' = FinalizeLanes(h)
    /\ out' = <<>>
    /\ i' = 0
    /\ pc' = "expand"
    /\ UNCHANGED <<raw, caller, updateUrl, hex, chex, outWords, lane,
                   seedVars, renderVars, historyVars, probe, call, uiVars>>

\* one pass of the expansion loop
CompressExpand ==
    /\ pc = "expand"
    /\ i < outWords
    /\ out' = Append(out, ExpandWord(h, i))
    /\ i' = i + 1
    /\ UNCHANGED <<pc, raw, caller, updateUrl, hex, chex, outWords, h, lane,
                   seedVars, renderVars, historyVars, probe, call, uiVars>>

\* return out
CompressReturn ==
    /\ pc = "expand"
    /\ i >= outWords
    /\ pc' = "compret"
    /\ UNCHANGED <<raw, caller, updateUrl, hex, compressVars, seedVars, renderVars,
                   historyVars, probe, call, uiVars>>

\* normalizeHex writes the words out as text and returns
Serialize ==
    /\ pc = "compret"
    /\ caller # "none"
    /\ hex' = JoinWords(out)
    /\ pc' = "normret"
    /\ UNCHANGED <<raw, caller, updateUrl, compressVars, seedVars, renderVars,
                   historyVars, probe, call, uiVars>>

-----------------------------------------------------------------------------
(* js/app.js *)

\* renderFromHex from the return of normalizeHex into hexToSeed32, which
\* returns at once on the empty string and otherwise starts its loop
RenderBegin ==
    /\ pc = "normret"
    /\ caller = "render"
    /\ normSeed' = hex
    /\ url' = IF updateUrl THEN hex ELSE url
    /\ IF Len(hex) = 0
         THEN /\ seed' = ToUint32(FNV_OFFSET)
              /\ pc' = "seedret"
              /\ UNCHANGED seedVars
         ELSE /\ fhex' = SeedPad(hex)
              /\ fh' = ToUint32(FNV_OFFSET)
              /\ fi' = 0
              /\ pc' = "seedloop"
              /\ UNCHANGED seed
    /\ UNCHANGED <<raw, caller, updateUrl, hex, compressVars, lastState,
                   blockSize, modeIdx, rotation, palette, pix, historyVars, probe, call, uiVars>>

\* one pass of the loop of hexToSeed32
SeedStep ==
    /\ pc = "seedloop"
    /\ fi < Len(fhex)
    /\ fh' = SeedLoopStep(fh, fhex, fi)
    /\ fi' = fi + 2
    /\ UNCHANGED <<pc, raw, caller, updateUrl, hex, compressVars, fhex,
                   renderVars, historyVars, probe, call, uiVars>>

\* the loop of hexToSeed32 ends and it returns
SeedReturn ==
    /\ pc = "seedloop"
    /\ fi >= Len(fhex)
    /\ seed' = SeedResult(fh)
    /\ pc' = "seedret"
    /\ UNCHANGED <<raw, caller, updateUrl, hex, compressVars, seedVars, url,
                   normSeed, lastState, blockSize, modeIdx, rotation, palette,
                   pix, historyVars, probe, call, uiVars>>

\* Choice without the offset constant: fmix32(seed) % n
ChoiceNoOffset(sd, c, n) == NumRem(fmix32(sd), n)

\* fmix32(seed + c) % n, the way renderFromHex derives each choice
Choice(sd, c, n) == NumRem(fmix32(NumAdd(sd, FromInt(c))), n)

\* renderFromHex from the return of hexToSeed32 to the pixel loop
RenderSelect ==
    /\ pc = "seedret"
    /\ LET bs == BLOCK_OPTIONS[Choice(seed, 48879, Len(BLOCK_OPTIONS)) + 1]
           md == Choice(seed, 4660, Len(MODE_NAMES))
           rot == Choice(seed, 23130, 4)
       IN  /\ blockSize' = bs
           /\ modeIdx' = md
           /\ lastState' =
                [seedHex |-> hex, modeName |-> MODE_NAMES[md + 1], blockSize |-> bs]
           /\ rotation' = rot
           /\ palette' =
                [k \in 1..Len(PALETTE_BASE) |-> PALETTE_BASE[((k - 1 + rot) % 4) + 1]]
    /\ pix' = <<>>
    /\ pc' = "pixels"
    /\ UNCHANGED <<raw, caller, updateUrl, hex, compressVars, seedVars, url,
                   normSeed, seed, historyVars, probe, call, uiVars>>

\* the palette index a render gives sample pixel k
PixelIndex(k) ==
    LET cidx == indexAt(modeIdx, seed, blockSize, Len(palette), CANVAS_W,
                        CANVAS_H, PixelAt(k)[1], PixelAt(k)[2])
        n == Len(palette)
    IN  (TruncRem(cidx, n) + n) % n

\* one pass of the pixel loop, the sample pixels taken in any order
Pixel ==
    /\ pc = "pixels"
    /\ modeIdx \in ModelledModes
    /\ \E k \in (1..NumPixels) \ DOMAIN pix :
         pix' = (k :> PixelIndex(k)) @@ pix
    /\ UNCHANGED <<pc, raw, caller, updateUrl, hex, compressVars, seedVars, url, normSeed,
                   lastState, seed, blockSize, modeIdx, rotation, palette,
                   historyVars, probe, call, uiVars>>

\* the pixel loop is over and renderFromHex returns
RenderDone ==
    /\ pc = "pixels"
    /\ modeIdx \in ModelledModes => DOMAIN pix = 1..NumPixels
    /\ pc' = "done"
    /\ renders' = renders + 1
    /\ UNCHANGED <<raw, caller, updateUrl, hex, compressVars, seedVars, renderVars, via,
                   prev, probe, call, uiVars>>

\* the render button: renderFromHex on the same input again
RenderAgain ==
    /\ pc = "done"
    /\ renders < MaxRenders
    /\ prev' = Outcome
    /\ via' = "again"
    /\ caller' = "render"
    /\ updateUrl' = TRUE
    /\ pc' = "normalize"
    /\ UNCHANGED <<raw, hex, compressVars, seedVars, renderVars, renders, probe, call, uiVars>>

\* the seed field is edited to "0" and the odd-length hex just rendered,
\* and the render button is clicked
RenderPadded ==
    /\ pc = "done"
    /\ renders < MaxRenders
    /\ Len(hex) % 2 = 1
    /\ prev' = Outcome
    /\ via' = "padded"
    /\ raw' = Str(<<"0">> \o hex)
    /\ field' = <<"0">> \o hex
    /\ caller' = "render"
    /\ updateUrl' = TRUE
    /\ pc' = "normalize"
    /\ UNCHANGED <<hex, compressVars, seedVars, renderVars, renders, probe, call,
                   pending, saved>>

\* the page is loaded from the URL the last render left: the boot code
\* normalizes the seed parameter
Reload ==
    /\ pc = "done"
    /\ renders < MaxRenders
    /\ prev' = Outcome
    /\ via' = "reload"
    /\ raw' = Str(url)
    /\ caller' = "boot"
    /\ lastState' = [seedHex |-> <<>>, modeName |-> "", blockSize |-> 0]
    /\ normSeed' = <<>>
    /\ pc' = "normalize"
    /\ UNCHANGED <<updateUrl, hex, compressVars, seedVars, url, seed, blockSize, modeIdx,
                   rotation, palette, pix, renders, probe, call, uiVars>>

\* the boot code fills the seed field and calls renderFromHex on it
BootRender ==
    /\ pc = "normret"
    /\ caller = "boot"
    /\ raw' = Str(IF hex # <<>> THEN hex ELSE DEFAULT_SEED)
    /\ field' = (IF hex # <<>> THEN hex ELSE DEFAULT_SEED)
    /\ updateUrl' = (hex = <<>>)
    /\ caller' = "render"
    /\ pc' = "normalize"
    /\ UNCHANGED <<hex, compressVars, seedVars, renderVars, historyVars, probe, call,
                   pending, saved>>

Next ==
    \/ NormalizeEnter
    \/ CompressScan
    \/ CompressFinalize
    \/ CompressExpand
    \/ CompressReturn
    \/ Serialize
    \/ RenderBegin
    \/ SeedStep
    \/ SeedReturn
    \/ RenderSelect
    \/ Pixel
    \/ RenderDone
    \/ RenderAgain
    \/ RenderPadded
    \/ Reload
    \/ BootRender

Spec == Init /\ [][Next]_vars

-----------------------------------------------------------------------------
(* compressHexToWords called directly *)

InitCompress ==
    /\ pc = "scan"
    /\ chex \in CompressInputs
    /\ outWords \in 0..MaxOutWords
    /\ h = StartLanes
    /\ i = 0
    /\ lane = 0
    /\ out = <<>>
    /\ raw = Str(<<>>)
    /\ caller = "none"
    /\ updateUrl = FALSE
    /\ hex = <<>>
    /\ SeedIdle
    /\ RenderIdle
    /\ HistoryIdle
    /\ UiIdle
    /\ probe = NoProbe
    /\ call = NoCall

NextCompress ==
    \/ CompressScan
    \/ CompressFinalize
    \/ CompressExpand
    \/ CompressReturn

SpecCompress == InitCompress /\ [][NextCompress]_vars

-----------------------------------------------------------------------------
(* hash2D called directly *)

InitHash ==
    /\ pc = "hash"
    /\ probe \in [seed : ProbeSeeds, x : ProbeCoords, y : ProbeCoords,
                  result : {<<>>}]
    /\ call = NoCall
    /\ raw = Str(<<>>)
    /\ caller = "none"
    /\ updateUrl = FALSE
    /\ hex = <<>>
    /\ CompressIdle
    /\ SeedIdle
    /\ RenderIdle
    /\ HistoryIdle
    /\ UiIdle

\* hash2D(seed, x, y) returns
HashCall ==
    /\ pc = "hash"
    /\ probe' = [probe EXCEPT !.result = hash2D(probe.seed, probe.x, probe.y)]
    /\ pc' = "hashret"
    /\ UNCHANGED <<raw, caller, updateUrl, hex, compressVars, seedVars, renderVars,
                   historyVars, call, uiVars>>

NextHash == HashCall

SpecHash == InitHash /\ [][NextHash]_vars
-----------------------------------------------------------------------------
(* An indexer of buildColorIndexer called directly *)

\* 0, 0xffffffff, and the seed of the default hex
IndexSeeds == {FromInt(0), <<0, 65535, 65535>>, <<0, 44049, 47033>>}

\* coordinates in [-2W, 2W) of the reference canvas
ExtendedCoords ==
    {-2 * CANVAS_W, -CANVAS_W - 1, -3, -1, 0, 5, CANVAS_W - 1, 2 * CANVAS_W - 1}

\* coordinates in the grid of the reference canvas
GridCoords == {0, 5, 20, CANVAS_W - 1}

\* coordinates in the grid that fall in and out of the bands of weave,
\* crosshatch and square-maze for every block size
BandCoords == {0, 1, 2, 3, 4, 7, 9, 17, 24, 31, 48, 90}

CallRecord(m, sd, bs, plen, W, H, x, y) ==
    [mode |-> m, seed |-> sd, blockSize |-> bs, paletteLen |-> plen, W |-> W,
     H |-> H, x |-> x, y |-> y, result |-> 0]

BlockSizes == {BLOCK_OPTIONS[k] : k \in DOMAIN BLOCK_OPTIONS}

\* the reference parameters, coordinates beyond the canvas
ExtendedCalls ==
    {CallRecord(m, sd, bs, Len(PALETTE_BASE), CANVAS_W, CANVAS_H, x, y) :
        m \in IndexerModes, sd \in IndexSeeds, bs \in BlockSizes,
        x \in ExtendedCoords, y \in ExtendedCoords}

\* the reference canvas, every palette length
PaletteCalls ==
    {CallRecord(m, sd, bs, plen, CANVAS_W, CANVAS_H, x, y) :
        m \in IndexerModes, sd \in IndexSeeds \ {FromInt(0)}, bs \in BlockSizes,
        plen \in 1..MaxPalette, x \in GridCoords, y \in GridCoords}

\* small canvases, square and not, every pixel, the symmetric modes
SmallCalls ==
    UNION {{CallRecord(m, sd, bs, plen, W, H, x, y) :
               m \in {1, 2, 3, 4, 5, 6, 21}, sd \in IndexSeeds, bs \in {1, 2},
               plen \in {3, Len(PALETTE_BASE)}, x \in 0..(W - 1), y \in 0..(H - 1)} :
           W \in 3..MaxSide, H \in 3..MaxSide}

\* the reference canvas, the modes with bands
BandCalls ==
    {CallRecord(m, sd, bs, plen, CANVAS_W, CANVAS_H, x, y) :
        m \in {18, 19, 26}, sd \in IndexSeeds \ {FromInt(0)}, bs \in BlockSizes,
        plen \in {Len(PALETTE_BASE)}, x \in BandCoords, y \in BandCoords}

InitIndexer ==
    /\ pc = "index"
    /\ call \in ExtendedCalls \cup PaletteCalls \cup SmallCalls \cup BandCalls
    /\ raw = Str(<<>>)
    /\ caller = "none"
    /\ updateUrl = FALSE
    /\ hex = <<>>
    /\ CompressIdle
    /\ SeedIdle
    /\ RenderIdle
    /\ HistoryIdle
    /\ UiIdle
    /\ probe = NoProbe

\* buildColorIndexer(seed, blockSize, paletteLen, W, H)[mode](x, y) returns
IndexCall ==
    /\ pc = "index"
    /\ \E r \in indexResults(call.mode, call.seed, call.blockSize, call.paletteLen,
                             call.W, call.H, call.x, call.y) :
         call' = [call EXCEPT !.result = r]
    /\ pc' = "indexret"
    /\ UNCHANGED <<raw, caller, updateUrl, hex, compressVars, seedVars, renderVars,
                   historyVars, probe, uiVars>>

NextIndexer == IndexCall

SpecIndexer == InitIndexer /\ [][NextIndexer]_vars

-----------------------------------------------------------------------------
(* renderFromHex from a given seed *)

\* seeds around 0, 2^31 and 2^32, and just below and at the values where
\* seed + 0xbeef, seed + 0x5a5a and seed + 0x1234 pass 2^32
SelectSeeds ==
    {<<0, a, b>> : a \in {0, 1, 32767, 32768, 33052, 65535},
                   b \in {0, 1, 16656, 16657, 40389, 42405, 42406, 60875, 60876,
                          65535}}

\* hexToSeed32 has just returned seed to renderFromHex
InitSelect ==
    /\ pc = "seedret"
    /\ seed \in SelectSeeds
    /\ raw = Str(<<>>)
    /\ caller = "render"
    /\ updateUrl = TRUE
    /\ hex = <<>>
    /\ CompressIdle
    /\ SeedIdle
    /\ url = <<>>
    /\ normSeed = <<>>
    /\ lastState = [seedHex |-> <<>>, modeName |-> "", blockSize |-> 0]
    /\ blockSize = 0
    /\ modeIdx = 0
    /\ rotation = 0
    /\ palette = PALETTE_BASE
    /\ pix = <<>>
    /\ HistoryIdle
    /\ UiIdle
    /\ probe = NoProbe
    /\ call = NoCall

NextSelect == RenderSelect

SpecSelect == InitSelect /\ [][NextSelect]_vars

-----------------------------------------------------------------------------
(* js/app.js: the page, its buttons and downloadPNG. A handler runs to its
   end before the next event or callback is taken, so an event is taken only
   when no renderFromHex is running. *)

\* the seed parameter of the URL the page is loaded from; empty when absent
UrlSeeds == {<<>>, [p \in 1..(MAX_HEX_NORM + 2) |-> "a"]}

\* what the user types into the seed field
UiTexts == {<<>>, <<"0", "X", "1", "f">>}

\* values of randomHex(32): 32 lower-case hex digits
RandomHexes == {[p \in 1..32 |-> HexDigits[((p * 3 + 1) % 16) + 1]]}

\* Number(scale) || 4 for els.exportScale.value; 0 stands for a value that
\* Number() maps to 0 or NaN
ScaleOf(v) == IF v = 0 THEN 4 ELSE v

\* `entropy-${seedPart}-${modePart}-${w}x${h}.png`, by its parts
FileName(ls, v) ==
    [seedPart |-> IF ls.seedHex # <<>> THEN ls.seedHex ELSE <<"s", "e", "e", "d">>,
     modePart |-> IF ls.modeName # "" THEN ls.modeName ELSE "mode",
     w |-> CANVAS_W * ScaleOf(v),
     h |-> CANVAS_H * ScaleOf(v)]

\* a callback that builds the name when it runs, not when the button is clicked
BlobFileLate(file, ls, v) == FileName(ls, v)

\* a.download = file: the name the callback closed over
BlobFile(file, ls, v) == file

\* the page is loaded: the boot code is about to normalize the seed parameter
InitUi ==
    /\ pc = "normalize"
    /\ url \in UrlSeeds
    /\ raw = Str(url)
    /\ caller = "boot"
    /\ updateUrl = FALSE
    /\ hex = <<>>
    /\ CompressIdle
    /\ SeedIdle
    /\ normSeed = <<>>
    /\ lastState = [seedHex |-> <<>>, modeName |-> "", blockSize |-> 0]
    /\ seed = FromInt(0)
    /\ blockSize = 0
    /\ modeIdx = 0
    /\ rotation = 0
    /\ palette = PALETTE_BASE
    /\ pix = <<>>
    /\ HistoryIdle
    /\ UiIdle
    /\ probe = NoProbe
    /\ call = NoCall

\* a handler calls renderFromHex(t) with the default updateUrl
CallRender(t, how) ==
    /\ pc = "done"
    /\ renders < MaxUiRenders
    /\ prev' = Outcome
    /\ via' = how
    /\ raw' = Str(t)
    /\ caller' = "render"
    /\ updateUrl' = TRUE
    /\ pc' = "normalize"
    /\ UNCHANGED <<hex, compressVars, seedVars, renderVars, renders, probe, call,
                   pending, saved>>

\* the user edits the seed field and renders nothing
EditField ==
    /\ pc = "done"
    /\ field' \in UiTexts \ {field}
    /\ UNCHANGED <<pc, raw, caller, updateUrl, hex, compressVars, seedVars, renderVars,
                   historyVars, probe, call, pending, saved>>

\* the render button
RenderClick ==
    /\ CallRender(field, "render")
    /\ UNCHANGED field

\* the Enter key in the seed field
EnterKey ==
    /\ CallRender(field, "enter")
    /\ UNCHANGED field

\* the copy button, up to its await; what follows touches the button text only
CopyClick ==
    /\ CallRender(field, "copy")
    /\ UNCHANGED field

\* the random button
RandomClick ==
    \E t \in RandomHexes :
        /\ field' = t
        /\ CallRender(t, "random")

\* the download button: downloadPNG up to the call of toBlob. The record keeps,
\* beside the name, what the most recent renderFromHex computed.
DownloadClick ==
    /\ pc = "done"
    /\ Len(pending) + Len(saved) < MaxDownloads
    /\ \E v \in {0, 2} :
         pending' = Append(pending,
                           [file |-> FileName(lastState, v),
                            scale |-> v,
                            hex |-> hex,
                            modeName |-> MODE_NAMES[modeIdx + 1],
                            renders |-> renders])
    /\ UNCHANGED <<pc, raw, caller, updateUrl, hex, compressVars, seedVars, renderVars,
                   historyVars, probe, call, field, saved>>

\* a toBlob callback runs: the link is clicked and the file is saved
BlobCallback ==
    /\ pc = "done"
    /\ \E k \in 1..Len(pending) :
         /\ saved' = Append(saved,
                            [pending[k] EXCEPT
                               !.file = BlobFile(pending[k].file, lastState,
                                                 pending[k].scale)])
         /\ pending' = SubSeq(pending, 1, k - 1) \o SubSeq(pending, k + 1, Len(pending))
    /\ UNCHANGED <<pc, raw, caller, updateUrl, hex, compressVars, seedVars, renderVars,
                   historyVars, probe, call, field>>

NextUi ==
    \/ NormalizeEnter
    \/ CompressScan
    \/ CompressFinalize
    \/ CompressExpand
    \/ CompressReturn
    \/ Serialize
    \/ BootRender
    \/ RenderBegin
    \/ SeedStep
    \/ SeedReturn
    \/ RenderSelect
    \/ Pixel
    \/ RenderDone
    \/ EditField
    \/ RenderClick
    \/ EnterKey
    \/ CopyClick
    \/ RandomClick
    \/ DownloadClick
    \/ BlobCallback

SpecUi == InitUi /\ [][NextUi]_vars
-----------------------------------------------------------------------------
(* Unsigned 32-bit arithmetic as the properties below state it: a value is *)
(* <<hi, lo>>, hi * 2^16 + lo, and every operation is taken mod 2^32.      *)

\* bit n of a
RefBit(a, n) == (a \div (2 ^ n)) % 2

\* the exclusive or of two 4-bit values
RefXorNibble(a, b) ==
    ((RefBit(a, 0) + RefBit(b, 0)) % 2) + 2 * ((RefBit(a, 1) + RefBit(b, 1)) % 2)
        + 4 * ((RefBit(a, 2) + RefBit(b, 2)) % 2)
        + 8 * ((RefBit(a, 3) + RefBit(b, 3)) % 2)

\* the exclusive or of two 16-bit values, nibble by nibble
RefXorHalf(a, b) ==
    RefXorNibble(a % 16, b % 16)
        + 16 * RefXorNibble((a \div 16) % 16, (b \div 16) % 16)
        + 256 * RefXorNibble((a \div 256) % 16, (b \div 256) % 16)
        + 4096 * RefXorNibble(a \div 4096, b \div 4096)

RefXor(a, b) == <<RefXorHalf(a[1], b[1]), RefXorHalf(a[2], b[2])>>

RefAdd(a, b) ==
    <<(a[1] + b[1] + ((a[2] + b[2]) \div 65536)) % 65536, (a[2] + b[2]) % 65536>>

\* the four bytes of a value, least significant first
RefBytes(a) == <<a[2] % 256, a[2] \div 256, a[1] % 256, a[1] \div 256>>

\* a * b mod 2^32, by bytes
RefMul(a, b) ==
    LET x == RefBytes(a)
        y == RefBytes(b)
        c0 == x[1] * y[1]
        c1 == x[1] * y[2] + x[2] * y[1] + (c0 \div 256)
        c2 == x[1] * y[3] + x[2] * y[2] + x[3] * y[1] + (c1 \div 256)
        c3 == x[1] * y[4] + x[2] * y[3] + x[3] * y[2] + x[4] * y[1] + (c2 \div 256)
    IN  <<(c3 % 256) * 256 + (c2 % 256), (c1 % 256) * 256 + (c0 % 256)>>

\* a >> s, zero filling, for 13 <= s <= 17
RefShr(a, s) ==
    IF s >= 16 THEN <<0, a[1] \div (2 ^ (s - 16))>>
    ELSE <<a[1] \div (2 ^ s), (a[1] % (2 ^ s)) * (2 ^ (16 - s)) + (a[2] \div (2 ^ s))>>

\* an integer v, negative or not, mod 2^32
RefOfInt(v) == <<(v \div 65536) % 65536, v % 65536>>

RefBasis == <<33052, 40389>>      \* 0x811c9dc5
RefPrime == <<256, 403>>          \* 0x01000193
RefMixA == <<34283, 51819>>       \* 0x85ebca6b
RefMixB == <<49842, 44597>>       \* 0xc2b2ae35
RefGolden == <<40503, 31161>>     \* 0x9e3779b9
RefStir == <<40503, 31153>>       \* 0x9e3779b1

\* a ^= a>>>16; a *= 0x85ebca6b; a ^= a>>>13; a *= 0xc2b2ae35; a ^= a>>>16
RefFmix(a) ==
    LET a1 == RefXor(a, RefShr(a, 16))
        a2 == RefMul(a1, RefMixA)
        a3 == RefXor(a2, RefShr(a2, 13))
        a4 == RefMul(a3, RefMixB)
    IN  RefXor(a4, RefShr(a4, 16))

LowerHexChars ==
    {"0", "1", "2", "3", "4", "5", "6", "7", "8", "9", "a", "b", "c", "d", "e", "f"}

\* the value of a lower-case hexadecimal digit
RefDigit(c) ==
    CASE c = "0" -> 0 [] c = "1" -> 1 [] c = "2" -> 2 [] c = "3" -> 3
      [] c = "4" -> 4 [] c = "5" -> 5 [] c = "6" -> 6 [] c = "7" -> 7
      [] c = "8" -> 8 [] c = "9" -> 9 [] c = "a" -> 10 [] c = "b" -> 11
      [] c = "c" -> 12 [] c = "d" -> 13 [] c = "e" -> 14 [] c = "f" -> 15

\* the lower-case form of a hexadecimal digit of either case
RefLower(c) ==
    CASE c = "A" -> "a" [] c = "B" -> "b" [] c = "C" -> "c" [] c = "D" -> "d"
      [] c = "E" -> "e" [] c = "F" -> "f" [] OTHER -> c

\* c is one of 0-9, a-f, A-F
RefIsHex(c) == RefLower(c) \in LowerHexChars

\* byte pair number j (0-indexed) of t, digits of either case; a trailing
\* single digit c is "0" c
RefPair(t, j) ==
    IF 2 * j + 2 <= Len(t)
      THEN 16 * RefDigit(RefLower(t[2 * j + 1])) + RefDigit(RefLower(t[2 * j + 2]))
      ELSE RefDigit(RefLower(t[2 * j + 1]))

\* the number of byte pairs of t
RefPairs(t) == (Len(t) + 1) \div 2

\* h := ((h XOR byte) * 0x01000193) mod 2^32
RefFnvStep(hh, b) == RefMul(RefXor(hh, <<0, b>>), RefPrime)

RECURSIVE RefFnvFold(_, _, _, _)
\* the left-to-right fold of RefFnvStep over byte pairs a..b of t, from hh;
\* the range is halved so that the checker's evaluation stays shallow
RefFnvFold(hh, t, a, b) ==
    IF a > b THEN hh
    ELSE IF a = b THEN RefFnvStep(hh, RefPair(t, a))
    ELSE LET m == (a + b) \div 2
         IN  CHOOSE r \in {RefFnvFold(v, t, m + 1, b) :
                             v \in {RefFnvFold(hh, t, a, m)}} : TRUE

\* 32-bit FNV-1a over the byte pairs of t
RefFnv1a(t) == RefFnvFold(RefBasis, t, 0, RefPairs(t) - 1)

\* the value a model number stands for, when it is in [0, 2^32)
RefOf(n) == <<n[2], n[3]>>

-----------------------------------------------------------------------------
(* Properties *)

\* where the hexadecimal digits of t that normalizeHex keeps can start
RefStart(t) ==
    IF Len(t) >= 2 /\ t[1] = "0" /\ (t[2] = "x" \/ t[2] = "X") THEN 3 ELSE 1

\* the positions of t whose characters are kept
RefKept(t) == {p \in RefStart(t)..Len(t) : RefIsHex(t[p])}

\* the number of digits of the cleaned hex of a value
RefDigitCount(r) == IF r.falsy THEN 0 ELSE Cardinality(RefKept(r.text))

\* hx is the text of r without one leading 0x or 0X, without any character
\* outside 0-9, a-f, A-F, the others in their order and in lower case; it is
\* empty for a falsy r
RefIsClean(hx, r) ==
    /\ Len(hx) = RefDigitCount(r)
    /\ ~r.falsy =>
         \A p \in RefKept(r.text) :
             hx[Cardinality({q \in RefKept(r.text) : q <= p})] = RefLower(r.text[p])

\* the 32-bit value eight hexadecimal digits write
RefWordOfText(d) ==
    <<4096 * RefDigit(d[1]) + 256 * RefDigit(d[2]) + 16 * RefDigit(d[3]) + RefDigit(d[4]),
      4096 * RefDigit(d[5]) + 256 * RefDigit(d[6]) + 16 * RefDigit(d[7]) + RefDigit(d[8])>>

\* a coordinate <<numerator, denominator>> truncated toward zero
RefTrunc(q) == IF q[1] >= 0 THEN q[1] \div q[2] ELSE -((-q[1]) \div q[2])

\* hash2D as its definition states it
RefHash2D(sd, x, y) ==
    LET n1 == RefAdd(sd, RefMul(RefAdd(RefOfInt(RefTrunc(x)), RefGolden), RefMixA))
        n2 == RefXor(n1, RefMul(RefAdd(RefOfInt(RefTrunc(y)), RefGolden), RefMixB))
    IN  RefFmix(n2)

\* the 4 lanes before the scan: 0x811c9dc5 XOR {1, 2, 3, 4}
RefLanes == [k \in 1..4 |-> RefXor(RefBasis, <<0, k>>)]

\* byte pair number j updates lane j mod 4, then stirs lane (j + 1) mod 4
RefLaneStep(ls, j, b) ==
    LET ln == (j % 4) + 1
        nx == ((j + 1) % 4) + 1
        hl == RefFnvStep(ls[ln], b)
        l1 == [ls EXCEPT ![ln] = hl]
    IN  [l1 EXCEPT ![nx] = RefXor(l1[nx], RefXor(RefShr(hl, 17), RefMul(hl, RefStir)))]

RECURSIVE RefScan(_, _, _, _)
\* the lanes after byte pairs a..b of t, from lanes ls; the range is halved
\* so that the checker's evaluation stays shallow
RefScan(ls, t, a, b) ==
    IF a > b THEN ls
    ELSE IF a = b THEN RefLaneStep(ls, a, RefPair(t, a))
    ELSE LET m == (a + b) \div 2
         IN  CHOOSE r \in {RefScan(v, t, m + 1, b) :
                             v \in {RefScan(ls, t, a, m)}} : TRUE

\* the lanes after the scan of t, each replaced by fmix32 of itself
RefFinalLanes(t) ==
    LET ls == RefScan(RefLanes, t, 0, RefPairs(t) - 1)
    IN  [k \in 1..4 |-> RefFmix(ls[k])]

\* output word n (0-indexed) from the final lanes
RefWord(fl, n) ==
    RefFmix(RefAdd(fl[(n % 4) + 1], RefMul(RefOfInt(n + 1), RefGolden)))

C2_Idempotent == (caller = "boot" /\ pc = "normret") => (raw.text = url /\ hex = raw.text)

\* the string normalized again is the 64 characters of a compressed input
C2_Witness == caller = "boot" /\ pc = "normret" /\ Len(raw.text) = 64 /\ hex = raw.text

\* C3, as claimed: every string normalizeHex returns has even length.
C3_EvenLength == (pc = "normret") => Len(hex) % 2 = 0

\* C3, amended: normalizeHex adds no padding: what it returns has as many
\* characters as the cleaned hex has digits when those are at most 128 (an
\* odd count gives an odd length) and 64 characters when they are more; the
\* leading "0" is added only by hexToSeed32, to its own copy, which always
\* has even length.
C3_PaddingOnlyInSeed ==
    /\ (pc = "normret") =>
           Len(hex) = IF RefDigitCount(raw) > 128 THEN 64 ELSE RefDigitCount(raw)
    /\ (pc = "seedloop") =>
           /\ Len(fhex) % 2 = 0
           /\ fhex = IF Len(hex) % 2 = 1 THEN <<"0">> \o hex ELSE hex

\* hexToSeed32 walks the padded copy of an odd-length normalizeHex result
C3_Witness == pc = "seedloop" /\ Len(hex) % 2 = 1 /\ Len(hex) > 1 /\ fi > 0

\* C4: what normalizeHex returns holds only the characters 0-9 and a-f and
\* is at most 128 characters long.
C4_LowerHexBounded ==
    (pc = "normret") =>
        /\ Len(hex) <= 128
        /\ \A p \in 1..Len(hex) : hex[p] \in LowerHexChars

\* normalizeHex has returned for a long input with a 0X prefix, upper-case
\* digits and characters that are no digits
C4_Witness ==
    /\ pc = "normret"
    /\ Len(raw.text) > MAX_HEX_NORM
    /\ raw.text[2] = "X"
    /\ \E p \in 1..Len(raw.text) : raw.text[p] = "-"
    /\ \E p \in 1..Len(raw.text) : raw.text[p] = "F"

\* C5: for an input whose cleaned hex has at most 128 digits, normalizeHex
\* returns the text of the input without one leading 0x or 0X, without the
\* characters outside 0-9, a-f, A-F, in lower case, the digits in their
\* order; a falsy input and an input without a digit give the empty string;
\* "0xDEADbeef" gives "deadbeef".
C5_NormalizeShort ==
    (pc = "normret" /\ RefDigitCount(raw) <= 128) =>
        /\ RefIsClean(hex, raw)
        /\ raw.falsy => hex = <<>>
        /\ raw = Str(<<"0", "x", "D", "E", "A", "D", "b", "e", "e", "f">>) =>
               hex = <<"d", "e", "a", "d", "b", "e", "e", "f">>

\* normalizeHex has returned for "0xDEADbeef"
C5_Witness ==
    /\ pc = "normret"
    /\ raw.text = <<"0", "x", "D", "E", "A", "D", "b", "e", "e", "f">>
    /\ Len(hex) = 8

\* C6: for an input whose cleaned hex has more than 128 digits, normalizeHex
\* returns exactly 64 lower-case hexadecimal characters: the 8 words the
\* compressor returned for the cleaned hex, each as 8 digits, leading zeros
\* kept, in word order.
C6_CompressedText ==
    (pc = "normret" /\ RefDigitCount(raw) > 128) =>
        /\ RefIsClean(chex, raw)
        /\ Len(out) = 8
        /\ Len(hex) = 64
        /\ \A p \in 1..Len(hex) : hex[p] \in LowerHexChars
        /\ \A n \in 1..Len(out) :
               RefWordOfText(SubSeq(hex, 8 * n - 7, 8 * n)) = RefOf(out[n])

\* normalizeHex has returned a compressed text one of whose words is below
\* 0x10000000
C6_Witness ==
    /\ pc = "normret"
    /\ RefDigitCount(raw) > 128
    /\ Len(hex) = 64
    /\ \E n \in 1..Len(out) : out[n][2] < 4096

\* C7: hexToSeed32 returns an unsigned value in [0, 2^32); for a hex string
\* of even length it is the left-to-right fold over the byte pairs of
\* h := ((h XOR byte) * 0x01000193) mod 2^32 from h = 0x811c9dc5; for the
\* empty string it is 0x811c9dc5.
C7_SeedIsFnv1a ==
    (pc = "seedret") =>
        /\ seed[1] = 0 /\ seed[2] \in 0..65535 /\ seed[3] \in 0..65535
        /\ Len(hex) % 2 = 0 => RefOf(seed) = RefFnv1a(hex)
        /\ hex = <<>> => RefOf(seed) = <<33052, 40389>>

\* hexToSeed32 has returned for 128 digits a value with its top bit set
C7_Witness == pc = "seedret" /\ Len(hex) = 128 /\ seed[2] >= 32768

\* C8: for a hex string of odd length, hexToSeed32 of "0" followed by the
\* string is hexToSeed32 of the string.
C8_OddPadding ==
    (via = "padded" /\ pc \in {"seedret", "pixels", "done"}) =>
        /\ hex = <<"0">> \o prev.hex
        /\ seed = prev.seed

\* hexToSeed32 has returned for "0" and an odd-length string of 3 digits or
\* more, whose own seed is known
C8_Witness ==
    /\ via = "padded"
    /\ pc = "seedret"
    /\ Len(prev.hex) % 2 = 1
    /\ Len(prev.hex) >= 3

\* C9: hash2D(seed, x, y) is, with x and y truncated toward zero,
\* n = (seed + ((x + 0x9e3779b9) * 0x85ebca6b mod 2^32)) mod 2^32, then
\* n = n XOR ((y + 0x9e3779b9) * 0xc2b2ae35 mod 2^32), then fmix32(n) with
\* logical shifts, and is in [0, 2^32).
C9_Hash2DExact ==
    (pc = "hashret") =>
        /\ probe.result[1] = 0
        /\ probe.result[2] \in 0..65535
        /\ probe.result[3] \in 0..65535
        /\ RefOf(probe.result) = RefHash2D(RefOf(probe.seed), probe.x, probe.y)

\* hash2D has returned for two negative coordinates, one of them fractional
C9_Witness ==
    /\ pc = "hashret"
    /\ probe.x = <<-3, 2>>
    /\ probe.y = <<-1, 1>>
    /\ probe.seed = <<0, 65535, 65535>>

\* C10: the words compressHexToWords returns are those of its algorithm: 4
\* lanes from 0x811c9dc5 XOR {1,2,3,4}; byte pair i (a trailing single digit
\* c read as "0" c) updates lane i mod 4 by the FNV-1a step and XORs
\* (lane >>> 17) XOR (lane * 0x9e3779b1 mod 2^32) into lane (i+1) mod 4; every
\* lane is then replaced by fmix32 of itself; word i is
\* fmix32((lane[i mod 4] + (i+1) * 0x9e3779b9) mod 2^32); there are outWords
\* words, each in [0, 2^32).
C10_CompressAlgorithm ==
    (pc = "compret") =>
        /\ Len(out) = outWords
        /\ \A n \in 1..Len(out) :
               /\ out[n][1] = 0 /\ out[n][2] \in 0..65535 /\ out[n][3] \in 0..65535
               /\ RefOf(out[n]) = RefWord(RefFinalLanes(chex), n - 1)

\* the compressor has returned 8 words for more than 128 digits, an odd
\* number of them
C10_Witness ==
    /\ pc = "compret"
    /\ Len(chex) > 128
    /\ Len(chex) % 2 = 1
    /\ outWords = 8
    /\ Len(out) = 8

\* C17: with outWords = 8, output word i and output word i + 4 (0 <= i < 4),
\* both derived from finalized lane i, are different values.
C17_WordsNotRepeats ==
    (pc = "compret" /\ outWords = 8) =>
        \A n \in 1..4 : RefOf(out[n]) # RefOf(out[n + 4])

\* the compressor has returned 8 words for more than 128 digits
C17_Witness ==
    /\ pc = "compret"
    /\ outWords = 8
    /\ Len(chex) = MAX_HEX_NORM + 2
    /\ \A n \in 1..4 : out[n] # out[n + 4]

\* C18: the scan step for byte pair number p = i / 2 works on lane p mod 4,
\* changes no lane other than p mod 4 and (p + 1) mod 4, leaves every lane
\* in [0, 2^32), and moves the lane index to (p + 1) mod 4.
C18_LaneFrame ==
    [][(pc = "scan" /\ i < Len(chex)) =>
          /\ lane = (i \div 2) % 4
          /\ i' = i + 2
          /\ lane' = ((i \div 2) + 1) % 4
          /\ \A k \in 0..3 :
                 (k # (i \div 2) % 4 /\ k # ((i \div 2) + 1) % 4) =>
                     h'[k + 1] = h[k + 1]
          /\ \A k \in 1..4 :
                 h'[k][1] = 0 /\ h'[k][2] \in 0..65535 /\ h'[k][3] \in 0..65535]_vars

\* the scan has gone once round the lanes and has changed every one of them
C18_Witness ==
    /\ pc = "scan"
    /\ i = 10
    /\ lane = 1
    /\ \A k \in 1..4 : h[k] # lanes[k]

\* an unsigned 32-bit value <<hi, lo>> mod a small m
RefModSmall(a, m) == ((a[1] % m) * (65536 % m) + (a[2] % m)) % m

\* fmix32((seed + c) mod 2^32) mod n
RefChoice(sd, c, n) == RefModSmall(RefFmix(RefAdd(sd, <<0, c>>)), n)

C16_ShareRoundTrip ==
    (pc = "done" /\ via = "reload" /\ renders = 2) => Outcome = prev

\* ---- the pattern indexers --------------------------------------------------

\* a call with the reference parameters: the 128 x 128 canvas, four colours
ReferenceCall ==
    /\ call.W = CANVAS_W
    /\ call.H = CANVAS_H
    /\ call.paletteLen = Len(PALETTE_BASE)
    /\ call.blockSize \in BlockSizes

InExtended(c, n) == -2 * n <= c /\ c < 2 * n

InGrid(c, n) == 0 <= c /\ c < n

\* C11: with the reference parameters every indexer returns an index with
\* 0 <= index < paletteLen at every integer (x, y) of [-2W, 2W) x [-2H, 2H),
\* the negative coordinates included.
C11_ExtendedRange ==
    (/\ pc = "indexret"
     /\ ReferenceCall
     /\ InExtended(call.x, call.W)
     /\ InExtended(call.y, call.H))
        => (0 <= call.result /\ call.result < call.paletteLen)

\* C12: for every paletteLen >= 1, every seed, every block size of
\* BLOCK_OPTIONS and every mode, the indexer returns an index of
\* [0, paletteLen) at every (x, y) of [0, W) x [0, H).
C12_PaletteRange ==
    (/\ pc = "indexret"
     /\ call.paletteLen >= 1
     /\ call.blockSize \in BlockSizes
     /\ InGrid(call.x, call.W)
     /\ InGrid(call.y, call.H))
        => (0 <= call.result /\ call.result < call.paletteLen)

\* what the indexer of the recorded call returns at another point
resultsAt(x, y) ==
    indexResults(call.mode, call.seed, call.blockSize, call.paletteLen,
                 call.W, call.H, x, y)

\* C13: on a grid of any width and height, even or odd, mode 1 returns at
\* (x, y) what it returns at (W-1-x, y), mode 2 what it returns at (x, H-1-y),
\* and mode 3 satisfies both.
C13_MirrorSymmetry ==
    (/\ pc = "indexret"
     /\ call.mode \in {1, 2, 3}
     /\ InGrid(call.x, call.W)
     /\ InGrid(call.y, call.H))
        => /\ call.mode \in {1, 3}
                => resultsAt(call.W - 1 - call.x, call.y) = {call.result}
           /\ call.mode \in {2, 3}
                => resultsAt(call.x, call.H - 1 - call.y) = {call.result}

\* an odd width and an even height, a point whose mirror images are other
\* points with other block coordinates, the quad mirror
C13_Witness ==
    /\ pc = "indexret"
    /\ call.mode = 3
    /\ call.W = 5
    /\ call.H = 4
    /\ call.blockSize = 1
    /\ call.x = 4
    /\ call.y = 3
    /\ resultsAt(0, 0) = {call.result}
    /\ resultsAt(4, 0) = {call.result}
    /\ resultsAt(0, 3) = {call.result}

\* the three rotated images of the recorded point, as the claim lists them
RotatedImages ==
    {<<call.W - 1 - call.y, call.x>>,
     <<call.W - 1 - call.x, call.H - 1 - call.y>>,
     <<call.y, call.H - 1 - call.x>>}

\* mode 6 and rot4Canonical agree at the recorded point and at its images
RotationInvariantHere ==
    \A p \in RotatedImages :
        /\ resultsAt(p[1], p[2]) = {call.result}
        /\ rot4Canonical(p[1], p[2], call.W, call.H)
               = rot4Canonical(call.x, call.y, call.W, call.H)

\* C14 as stated: for every canvas size W, H, mode 6 returns the same index at
\* (x, y) and at its three rotated images, and rot4Canonical returns the same
\* pair for all four.
C14_RotationAnySize ==
    (/\ pc = "indexret"
     /\ call.mode = 6
     /\ InGrid(call.x, call.W)
     /\ InGrid(call.y, call.H))
        => RotationInvariantHere

\* C14, amended: on a square canvas (W = H), mode 6 returns the same index at
\* (x, y) and at its three rotated images, all of them grid points, and
\* rot4Canonical returns for all four the same pair, the smallest of the four
\* in the lexicographic order.
C14_RotationSquare ==
    (/\ pc = "indexret"
     /\ call.mode = 6
     /\ call.W = call.H
     /\ InGrid(call.x, call.W)
     /\ InGrid(call.y, call.H))
        => /\ RotationInvariantHere
           /\ \A p \in RotatedImages : InGrid(p[1], call.W) /\ InGrid(p[2], call.H)
           /\ \A p \in RotatedImages \cup {<<call.x, call.y>>} :
                LET s == rot4Canonical(call.x, call.y, call.W, call.H)
                IN  s[1] < p[1] \/ (s[1] = p[1] /\ s[2] <= p[2])
           /\ rot4Canonical(call.x, call.y, call.W, call.H)
                  \in RotatedImages \cup {<<call.x, call.y>>}

\* a 4 x 4 canvas, the point (1, 0), whose orbit is (1, 0), (3, 1), (2, 3),
\* (0, 2): four points in four blocks, the representative is not (1, 0)
C14_Witness ==
    /\ pc = "indexret"
    /\ call.mode = 6
    /\ call.W = 4
    /\ call.H = 4
    /\ call.blockSize = 1
    /\ call.x = 1
    /\ call.y = 0
    /\ RotatedImages = {<<3, 1>>, <<2, 3>>, <<0, 2>>}
    /\ rot4Canonical(3, 1, 4, 4) = <<0, 2>>
    /\ resultsAt(3, 1) = {call.result}
    /\ resultsAt(2, 3) = {call.result}
    /\ resultsAt(0, 2) = {call.result}

\* the period of the lattice of modes 18, 19, 26 and the thickness of its band
RefPeriod(m, bs) ==
    CASE m = 18 -> IF 2 * bs > 3 THEN 2 * bs ELSE 3
      [] m = 19 -> IF 3 * bs > 4 THEN 3 * bs ELSE 4
      [] m = 26 -> IF 3 * bs > 6 THEN 3 * bs ELSE 6

RefThickness(m, bs) ==
    LET t == RefPeriod(m, bs) \div (CASE m = 18 -> 5 [] m = 19 -> 6 [] m = 26 -> 6)
    IN  IF t > 1 THEN t ELSE 1

\* a grid coordinate lies in the band: for the weave and the crosshatch the
\* band is centred on the middle of the period, for the maze it is the low
\* edge of the cell
RefInBand(m, bs, c) ==
    LET r == c % RefPeriod(m, bs)
        d == 2 * r - RefPeriod(m, bs)
    IN  IF m = 26 THEN r < RefThickness(m, bs)
        ELSE (IF d < 0 THEN -d ELSE d) < 2 * RefThickness(m, bs)

\* the recorded grid point is on a strand, a hatch line or a wall
CallInBand ==
    \/ RefInBand(call.mode, call.blockSize, call.x)
    \/ RefInBand(call.mode, call.blockSize, call.y)

CallCellX == call.x \div RefPeriod(call.mode, call.blockSize)

CallCellY == call.y \div RefPeriod(call.mode, call.blockSize)

\* floor-mod(hash2D(seed, cellX, cellY), paletteLen) of the recorded point
CallCellHash ==
    RefModSmall(RefHash2D(RefOf(call.seed), <<CallCellX, 1>>, <<CallCellY, 1>>),
                call.paletteLen)

BandCall ==
    /\ pc = "indexret"
    /\ call.mode \in {18, 19, 26}
    /\ InGrid(call.x, call.W)
    /\ InGrid(call.y, call.H)

\* C19 as stated: in modes 18, 19 and 26 a pixel in the band gets a colour
\* that the parity of its cell indices chooses (pixels of the band whose cell
\* indices have the same parities get the same colour), and a pixel outside
\* the band gets floor-mod(hash2D(seed, cellX, cellY), paletteLen).
C19_BandByParity ==
    BandCall =>
        IF CallInBand
          THEN \A x \in BandCoords, y \in BandCoords :
                 LET px == x \div RefPeriod(call.mode, call.blockSize)
                     py == y \div RefPeriod(call.mode, call.blockSize)
                 IN  (/\ \/ RefInBand(call.mode, call.blockSize, x)
                         \/ RefInBand(call.mode, call.blockSize, y)
                      /\ px % 2 = CallCellX % 2
                      /\ py % 2 = CallCellY % 2)
                         => resultsAt(x, y) = {call.result}
          ELSE call.result = CallCellHash

\* C19, amended: in modes 18 and 19 a pixel in the band gets the literal
\* colour that the parity of its cell indices chooses (18: 0 when cellX and
\* cellY differ in parity, else 2; 19: 1 when cellX is odd, else 3) and a pixel
\* outside gets floor-mod(hash2D(seed, cellX, cellY), paletteLen); in mode 26 a
\* pixel on a wall gets (1 + (seed & 1)) % paletteLen, whatever its cell, and
\* a pixel of a corridor gets 0 when cellX and cellY differ in parity, else 3,
\* and is not hashed.
C19_BandColouring ==
    BandCall =>
        CASE call.mode = 18 ->
               IF CallInBand
                 THEN call.result = (IF (CallCellX + CallCellY) % 2 = 1 THEN 0 ELSE 2)
                 ELSE call.result = CallCellHash
          [] call.mode = 19 ->
               IF CallInBand
                 THEN call.result = (IF CallCellX % 2 = 1 THEN 1 ELSE 3)
                 ELSE call.result = CallCellHash
          [] call.mode = 26 ->
               IF CallInBand
                 THEN call.result = (1 + (call.seed[3] % 2)) % call.paletteLen
                 ELSE call.result = (IF (CallCellX + CallCellY) % 2 = 1 THEN 0 ELSE 3)

\* the maze with block size 1 (cells of 6, walls of 1) and seed 0xffffffff: the
\* corridor pixel (7, 9) of cell (1, 1) gets 3 while its cell hashes to 1, and
\* the wall pixel (7, 0) gets (1 + 1) % 4 = 2
C19_Witness ==
    /\ pc = "indexret"
    /\ call.mode = 26
    /\ call.seed = <<0, 65535, 65535>>
    /\ call.blockSize = 1
    /\ call.paletteLen = 4
    /\ call.x = 7
    /\ call.y = 9
    /\ ~CallInBand
    /\ call.result = 3
    /\ CallCellHash = 1
    /\ resultsAt(7, 0) = {2}

\* C20: on a square canvas (W = H) mode 4 returns at (x, y) what it returns at
\* (y, x), mode 5 what it returns at (H-1-y, W-1-x), and mode 21 what it
\* returns at (W-1-x, y), at (x, H-1-y) and at (y, x).
C20_DiagonalSymmetry ==
    (/\ pc = "indexret"
     /\ call.W = call.H
     /\ InGrid(call.x, call.W)
     /\ InGrid(call.y, call.H))
        => /\ call.mode = 4 => resultsAt(call.y, call.x) = {call.result}
           /\ call.mode = 5
                => resultsAt(call.H - 1 - call.y, call.W - 1 - call.x) = {call.result}
           /\ call.mode = 21
                => /\ resultsAt(call.W - 1 - call.x, call.y) = {call.result}
                   /\ resultsAt(call.x, call.H - 1 - call.y) = {call.result}
                   /\ resultsAt(call.y, call.x) = {call.result}

\* kaleido8 on a 5 x 5 canvas at (1, 0), off both diagonals and off both
\* axes: its images (3, 0), (1, 4) and (0, 1) are three other points
C20_Witness ==
    /\ pc = "indexret"
    /\ call.mode = 21
    /\ call.W = 5
    /\ call.H = 5
    /\ call.blockSize = 1
    /\ call.x = 1
    /\ call.y = 0
    /\ resultsAt(3, 0) = {call.result}
    /\ resultsAt(1, 4) = {call.result}
    /\ resultsAt(0, 1) = {call.result}

\* ---- the download --------------------------------------------------------

\* what the most recent renderFromHex computed, by the definition of its
\* choices: the normalized hex, the name of the mode and the block size
RefRendered ==
    [seedHex |-> hex,
     modeName |-> MODE_NAMES[RefChoice(RefOf(seed), 4660, 32) + 1],
     blockSize |-> <<1, 2, 4, 8, 16>>[RefChoice(RefOf(seed), 48879, 5) + 1]]

\* the downloads clicked so far, saved or not
Downloads == {pending[k] : k \in DOMAIN pending} \cup {saved[k] : k \in DOMAIN saved}

\* C21: after boot, whenever no handler is running, lastState holds the
\* normalized hex, the mode name and the block size of the most recent
\* renderFromHex; and the name of every download, saved or waiting for its
\* toBlob callback, carries the normalized hex and the mode name of the most
\* recent renderFromHex before its click, whatever was typed or rendered
\* since (for the empty hex the name carries the placeholder "seed").
C21_DownloadNamesRender ==
    /\ (pc = "done") =>
          /\ renders >= 1
          /\ lastState = RefRendered
          /\ lastState.modeName # ""
          /\ RefDigitCount(raw) <= 128 => RefIsClean(lastState.seedHex, raw)
    /\ \A d \in Downloads :
          /\ d.renders >= 1
          /\ d.file.seedPart = (IF d.hex = <<>> THEN <<"s", "e", "e", "d">> ELSE d.hex)
          /\ d.file.modePart = d.modeName

\* the page booted without a seed parameter (default seed, mode "diag"),
\* download was clicked, the emptied field was rendered (empty hex, mode
\* "sectors") before the callback ran, and the field was edited again: the
\* saved name is that of the boot render, lastState that of the second render
C21_Witness ==
    /\ pc = "done"
    /\ renders = 2
    /\ Len(saved) = 1
    /\ saved[1].renders = 1
    /\ saved[1].file.seedPart = DEFAULT_SEED
    /\ saved[1].file.modePart = "diag"
    /\ lastState.seedHex = <<>>
    /\ lastState.modeName = "sectors"
    /\ field = <<"0", "X", "1", "f">>

=============================================================================
